---- MODULE Spec2Model ----
(***************************************************************************)
(* Model of the OutlierDB scraper (src/src/grepl/scrape): the raw_page     *)
(* snapshot table behind OutlierDbSqlite.save_page, the capture session    *)
(* run by OutlierDbScraper.scrape_pages (skip_page, scrape_page,           *)
(* click_next_btn), the scraper's cleanup, the parsing stage and the clip  *)
(* downloader.                                                             *)
(*                                                                         *)
(* The specifications share one state:                                     *)
(*   StoreSpec  save_page called directly, by two OutlierDbSqlite handles  *)
(*              that share the class-level connection, with arbitrary keys *)
(*   Spec       one scrape_pages run of one scraper, as in __main__        *)
(*   LossSpec   the same run, the browser session being lost at any moment *)
(*   ParseSpec  parse_outlier.py working on the table the capture fills    *)
(*   LifeSpec   construction, with-block, close() and atexit of a scraper  *)
(*   BlockSpec  _extract_youtube_id_from_block on one block                *)
(*   ClipSpec   one download_clip call                                     *)
(***************************************************************************)
EXTENDS Bags, FiniteSets, Integers, Sequences, TLC

\* ---------------------------------------------------------------- bounds
MaxPages == 3      \* n_pages ranges over 1..MaxPages
MaxScrolls == 3    \* n_scrolls ranges over 1..MaxScrolls
MaxStartPage == 3  \* start_page ranges over 1..MaxStartPage (1-based)
MaxCalls == 3      \* StoreSpec: number of direct save_page calls
MaxKeyIdx == 1     \* StoreSpec: page_idx and scroll_idx range over 0..MaxKeyIdx
MaxParses == 2     \* ParseSpec: number of parse_all calls
MaxLifeCalls == 3  \* LifeSpec: number of direct close() and _cleanup_profile_dir() calls
MaxTags == 2       \* BlockSpec: a block holds 0..MaxTags iframe tags and 0..MaxTags img tags
MaxIds == 3        \* ClipSpec: download_clip is given a list of 1..MaxIds video ids

\* click_next_btn: max_attempts = 20
max_attempts == 20

Urls == {"u1", "u2"}
SessionUrl == "u1"
Handles == {1, 2}
\* markup is what the browser shows: <<listing page, scrolls since it loaded>>
NoHtml == <<>>
Htmls == {<<0, 1>>, <<0, 2>>}

\* OutlierDbScraper.__init__: pause_ms = 1200
pause_ms == 1200

\* before any scroll step: nothing missing, nothing returned but None
NoStep == [degraded |-> FALSE, ready |-> TRUE, iframes |-> TRUE,
           scroll_ret |-> "None", wait_ret |-> TRUE]

VARIABLES
    raw_page,            \* the raw_page table: a bag of rows
    db_ts,               \* OutlierDbSqlite.snapshot_ts of each db handle
    first_written,       \* StoreSpec history: [key, content] of the first save_page call per key
    rewritten,           \* StoreSpec history: keys written again with a different markup
    last_raised,         \* StoreSpec history: the last save_page call raised IntegrityError
    n_calls,             \* StoreSpec history: number of save_page calls made
    n_pages, n_scrolls,  \* arguments of scrape_pages
    start_page,          \* OutlierDbScraper.start_page
    headless,            \* OutlierDbScraper.headless
    pages_left_to_skip,  \* OutlierDbScraper._pages_left_to_skip
    pc,                  \* position of the session in scrape_pages and its callees
    page,                \* loop variable of scrape_pages
    scroll_idx,          \* loop variable of skip_page / scrape_page
    html,                \* local of scrape_page: driver.page_source
    attempt,             \* loop variable of click_next_btn (attempts made so far)
    caller,              \* who called click_next_btn: "skip" or "scrape"
    browser,             \* the remote browser: listing page shown, scrolls since it loaded
    persisted,           \* history: keys of the snapshots this session's save_page calls stored
    trace,               \* history: session states visited
    click_results,       \* history: caller and outcome of each finished click_next_btn call
    click_calls,         \* history: number of click_next_btn calls started
    skip_failed,         \* history: some skip_page saw click_next_btn return False
    step_out,            \* what the last _scroll_container / _wait_for_youtube_iframes met and returned
    last_ops,            \* driver calls issued by the last attempt of click_next_btn
    pauses,              \* time.sleep calls (ms) made after the failed attempts of this click_next_btn call
    doc_hidden,          \* document.hidden as click_next_btn last read it
    driver_alive,        \* the browser session is reachable
    lost_calls,          \* history: driver calls issued after the browser session was lost
    parsed_page,         \* the parsed_page table: whether it exists, and its bag of rows
    n_parses,            \* ParseSpec history: number of parse_all calls made
    profile_dir,         \* OutlierDbScraper.profile_dir: "unset", "set" (a path) or "None"
    dir_exists,          \* the temporary profile directory is on disk
    has_driver,          \* the scraper has its driver attribute (webdriver.Chrome started)
    rm_attempts,         \* history: number of shutil.rmtree calls on the profile directory
    quit_calls,          \* history: number of driver.quit() calls
    cleanup_calls,       \* history: number of _cleanup_profile_dir calls
    life_pc,             \* where the scraper object is in its life
    close_out,           \* history: the close() calls made and what the last one met and did
    exit_out,            \* history: how the with-block was left
    atexit_ran,          \* the interpreter has exited and run the atexit hooks
    block_in,            \* BlockSpec: the sequence-card block handed to _extract_youtube_id_from_block
    yt_out,              \* BlockSpec: what _extract_youtube_id_from_block gave for it
    clip_in,             \* ClipSpec: arguments and environment of one download_clip call
    clip_out             \* ClipSpec: what that download_clip call gave

storeVars == <<raw_page, db_ts>>
storeHist == <<first_written, rewritten, last_raised, n_calls>>
configVars == <<n_pages, n_scrolls, start_page, headless>>
sessionVars == <<pages_left_to_skip, pc, page, scroll_idx, html, attempt, caller, browser>>
sessionHist == <<persisted, trace, click_results, click_calls, skip_failed>>
clickEnv == <<last_ops, pauses, doc_hidden>>
driverVars == <<driver_alive, lost_calls>>
envVars == <<step_out, clickEnv, driverVars>>
parseVars == <<parsed_page, n_parses>>
lifeVars == <<profile_dir, dir_exists, has_driver, rm_attempts, quit_calls, cleanup_calls,
              life_pc, close_out, exit_out, atexit_ran>>
blockVars == <<block_in, yt_out>>
clipVars == <<clip_in, clip_out>>
stageVars == <<blockVars, clipVars>>
vars == <<storeVars, storeHist, configVars, sessionVars, sessionHist, envVars, parseVars,
          lifeVars, stageVars>>

\* ------------------------------------------------------- the raw_page table
Row(url, pidx, sidx, ts, content) ==
    [url |-> url, page_idx |-> pidx, scroll_idx |-> sidx,
     snapshot_ts |-> ts, content |-> content]

KeyOf(row) == <<row.url, row.page_idx, row.scroll_idx, row.snapshot_ts>>

RowsWithKey(tbl, key) == {r \in BagToSet(tbl) : KeyOf(r) = key}

\* number of rows of the table carrying the key (the table is a bag)
CountKey(tbl, key) ==
    LET rs == RowsWithKey(tbl, key)
        RECURSIVE Sum(_)
        Sum(S) == IF S = {} THEN 0
                  ELSE LET r == CHOOSE x \in S : TRUE
                       IN CopiesIn(r, tbl) + Sum(S \ {r})
    IN Sum(rs)

\* create_table: UNIQUE(url, page_idx, scroll_idx, snapshot_ts)
UniqueViolation(tbl, row) == RowsWithKey(tbl, KeyOf(row)) # {}

\* save_page as INSERT OR REPLACE
save_page_replace(tbl, url, pidx, sidx, ts, content) ==
    LET row == Row(url, pidx, sidx, ts, content)
        kept == [r \in {x \in BagToSet(tbl) : KeyOf(x) # KeyOf(row)} |-> tbl[r]]
    IN [tbl |-> kept (+) SetToBag({row}), raised |-> FALSE]

\* save_page: plain INSERT inside "with self.conn" (commit, or rollback and re-raise)
save_page(tbl, url, pidx, sidx, ts, content) ==
    LET row == Row(url, pidx, sidx, ts, content)
    IN IF UniqueViolation(tbl, row)
       THEN [tbl |-> tbl, raised |-> TRUE]
       ELSE [tbl |-> tbl (+) SetToBag({row}), raised |-> FALSE]

\* ------------------------------------------------------------- idle session
EnvIdle ==
    /\ step_out = NoStep
    /\ last_ops = <<>> /\ pauses = <<>> /\ doc_hidden = "unread"
    /\ driver_alive = TRUE /\ lost_calls = 0

\* no ParsedOutlierDbSqlite has been built: parsed_page does not exist
NoParsed == [exists |-> FALSE, rows |-> EmptyBag]

ParseIdle == parsed_page = NoParsed /\ n_parses = 0

NoClose == [n |-> 0, raised |-> FALSE, quit_raised |-> FALSE, rm_raised |-> FALSE,
            cleanup_called |-> FALSE]

NoExit == [exc |-> "none", propagated |-> "none"]

NoBlock == [iframes |-> <<>>, imgs |-> <<>>]

NoYt == [called |-> FALSE, raised |-> FALSE, id |-> ""]

NoClip == [video_ids |-> <<>>, is_single |-> FALSE, existing |-> {}, ok |-> {},
           allow_fallback |-> TRUE, bw |-> FALSE, conv_ok |-> {}]

NoClipOut == [called |-> FALSE, raised |-> FALSE, paths |-> <<>>, depth |-> 0,
              downloads |-> <<>>, existing |-> {}]

\* the parser has been handed no block, download_clip has not been called
StageIdle ==
    /\ block_in = NoBlock /\ yt_out = NoYt
    /\ clip_in = NoClip /\ clip_out = NoClipOut

\* no OutlierDbScraper has been built
LifeIdle ==
    /\ profile_dir = "unset" /\ dir_exists = FALSE /\ has_driver = FALSE
    /\ rm_attempts = 0 /\ quit_calls = 0 /\ cleanup_calls = 0
    /\ life_pc = "new" /\ close_out = NoClose /\ exit_out = NoExit
    /\ atexit_ran = FALSE

SessionIdle ==
    /\ n_pages = 1 /\ n_scrolls = 1 /\ start_page = 1 /\ headless = TRUE
    /\ pages_left_to_skip = 0
    /\ pc = "idle" /\ page = 0 /\ scroll_idx = 0 /\ html = NoHtml
    /\ attempt = 0 /\ caller = "none"
    /\ browser = [page |-> 0, scrolls |-> 0]
    /\ persisted = <<>> /\ trace = <<>> /\ click_results = <<>>
    /\ click_calls = 0 /\ skip_failed = FALSE

\* ------------------------------------------------------------- StoreSpec
\* OutlierDbSqlite.__init__ of two handles on an empty table: the second handle
\* may be built within the same clock reading as the first, or later
StoreInit ==
    /\ raw_page = EmptyBag
    /\ db_ts \in {[h \in Handles |-> IF h = 1 THEN 1 ELSE t] : t \in {1, 2}}
    /\ first_written = {} /\ rewritten = {} /\ last_raised = FALSE /\ n_calls = 0
    /\ SessionIdle
    /\ EnvIdle
    /\ ParseIdle
    /\ LifeIdle
    /\ StageIdle

\* one call db.save_page(url, page_idx, scroll_idx, html) on handle h
SavePageCall(h, url, p, s, content) ==
    /\ n_calls < MaxCalls
    /\ LET key == <<url, p, s, db_ts[h]>>
           res == save_page(raw_page, url, p, s, db_ts[h], content)
           seen == {f \in first_written : f.key = key}
       IN /\ raw_page' = res.tbl
          /\ last_raised' = res.raised
          /\ first_written' = IF seen = {}
                              THEN first_written \cup {[key |-> key, content |-> content]}
                              ELSE first_written
          /\ rewritten' = IF \E f \in seen : f.content # content
                          THEN rewritten \cup {key}
                          ELSE rewritten
    /\ n_calls' = n_calls + 1
    /\ UNCHANGED <<db_ts, configVars, lifeVars, stageVars, parseVars, sessionVars, sessionHist, envVars>>

StoreNext ==
    \E h \in Handles, url \in Urls, p \in 0..MaxKeyIdx, s \in 0..MaxKeyIdx, content \in Htmls :
        SavePageCall(h, url, p, s, content)

StoreSpec == StoreInit /\ [][StoreNext]_vars

\* ------------------------------------------------------------- Spec
St(st, p, s) == [st |-> st, page |-> p, scroll |-> s]

\* rows a previous run left in outlierdb.sqlite, under an earlier snapshot_ts
OldRows == SetToBag({Row(SessionUrl, 0, 0, 0, <<0, 1>>)})

\* OutlierDbSqlite.__init__ and OutlierDbScraper.__init__, then the call
\* scrape_pages(url, n_scrolls, n_pages)
Init ==
    /\ raw_page \in {EmptyBag, OldRows}
    /\ db_ts = [h \in Handles |-> 1]
    /\ first_written = {} /\ rewritten = {} /\ last_raised = FALSE /\ n_calls = 0
    /\ n_pages \in 1..MaxPages
    /\ n_scrolls \in 1..MaxScrolls
    /\ start_page \in 1..MaxStartPage
    /\ headless \in BOOLEAN
    /\ pages_left_to_skip = start_page - 1
    /\ pc = "loop" /\ page = 0 /\ scroll_idx = 0 /\ html = NoHtml
    /\ attempt = 0 /\ caller = "none"
    /\ browser = [page |-> 0, scrolls |-> 0]
    /\ persisted = <<>> /\ trace = <<>> /\ click_results = <<>>
    /\ click_calls = 0 /\ skip_failed = FALSE
    /\ EnvIdle
    /\ ParseIdle
    /\ LifeIdle
    /\ StageIdle

\* scrape_pages: "if self._pages_left_to_skip >= 0"
ShouldSkip_geq(left) == left >= 0

\* scrape_pages: "if self._pages_left_to_skip > 0"
ShouldSkip(left) == left > 0

\* scrape_pages: "for page in range(n_pages + 1)"
InBudget_plus1(p, n) == p < n + 1

\* scrape_pages: "for page in range(n_pages)"
InBudget(p, n) == p < n

\* click_next_btn: "for attempt in range(max_attempts + 1)"
MoreAttempts_plus1(a) == a < max_attempts + 1

\* click_next_btn: "for attempt in range(max_attempts)"
MoreAttempts(a) == a < max_attempts

\* skip_page: "for scroll_idx in range(n_scrolls)"
SkipMore(s, n) == s < n

\* scrape_page: "for scroll_idx in range(n_scrolls - 1)"
ScrapeMore_short(s, n) == s < n - 1

\* scrape_page: "for scroll_idx in range(n_scrolls)"
ScrapeMore(s, n) == s < n

\* skip_page: "self._pages_left_to_skip -= 2"
SkipCounted_twice(left) == left - 2

\* skip_page: "self._pages_left_to_skip -= 1"
SkipCounted(left) == left - 1

\* save_page stamping each row with a fresh utcnow() reading
StampOf_fresh(ts, written) == ts + written

\* save_page: the row carries self.snapshot_ts, whatever was written before
StampOf(ts, written) == ts

\* scrape_page reading driver.page_source before the step's _scroll_container
PageSource_stale(b) == <<b.page, b.scrolls - 1>>

\* driver.page_source: the markup the browser shows now
PageSource(b) == <<b.page, b.scrolls>>

\* _scroll_container: one scroll step of the container (or of the window)
ScrollOnce(b) == [b EXCEPT !.scrolls = @ + 1]

\* a click on the Next control, or the operator navigating by hand
NextPage(b) == [page |-> b.page + 1, scrolls |-> 0]

\* _scroll_container with no fallback to the window: a missing container raises
scroll_container_nofallback(found, alive) ==
    [raised |-> ~alive \/ ~found, degraded |-> FALSE, scroll_ret |-> "None", calls |-> 1]

\* _scroll_container: find the container and scroll it; on any exception log a
\* warning and scroll the window instead (outside the try, so a lost session
\* raises there, after two driver calls); the method returns None
scroll_container(found, alive) ==
    IF alive
    THEN [raised |-> FALSE, degraded |-> ~found, scroll_ret |-> "None", calls |-> 1]
    ELSE [raised |-> TRUE, degraded |-> TRUE, scroll_ret |-> "None", calls |-> 2]

\* _wait_for_youtube_iframes without its try/except: a timeout raises
wait_for_youtube_iframes_raising(found, alive) ==
    [raised |-> ~(alive /\ found), ret |-> TRUE]

\* _wait_for_youtube_iframes: True when an iframe is present, False on any exception
wait_for_youtube_iframes(found, alive) ==
    [raised |-> FALSE, ret |-> alive /\ found]

\* click_next_btn: the jitter issued on every attempt
AttemptOps_alwaysjitter(a) ==
    <<"scroll_bottom", "scroll_up", "scroll_bottom", "wait_clickable">>

\* click_next_btn, driver calls of one attempt up to the wait for the control:
\* scroll to the bottom, on attempts after the first scroll up and down again
AttemptOps(a) ==
    IF a > 0
    THEN <<"scroll_bottom", "scroll_up", "scroll_bottom", "wait_clickable">>
    ELSE <<"scroll_bottom", "wait_clickable">>

\* click_next_btn with a pause growing with the attempt number
BackoffPause_growing(a) ==
    IF a < max_attempts - 1 THEN <<2 * pause_ms * (a + 1)>> ELSE <<>>

\* click_next_btn, except branch: "if attempt < max_attempts - 1:
\* time.sleep(self.pause_sec * 2)", in milliseconds
BackoffPause(a) ==
    IF a < max_attempts - 1 THEN <<2 * pause_ms>> ELSE <<>>

\* click_next_btn asking for manual intervention whatever document.hidden is
AsksManual_always(hidden) == TRUE

\* click_next_btn: "if not self.driver.execute_script('return document.hidden')"
AsksManual(hidden) == hidden # "hidden"

\* click_next_btn with no except branch: a failed attempt raises out of the call
OnAttemptFailure_raise(here) == "aborted"

\* click_next_btn: "except Exception as e" catches the failed attempt, logs it
\* and lets the for loop go on
OnAttemptFailure(here) == here

\* scrape_pages, one iteration of the for loop: skip_page or scrape_page is entered
ScrapePagesIter ==
    /\ pc = "loop"
    /\ InBudget(page, n_pages)
    /\ scroll_idx' = 0
    /\ IF ShouldSkip(pages_left_to_skip)
       THEN /\ pc' = "skip_scroll"
            /\ trace' = Append(trace, St("SKIPPING", page, 0))
       ELSE /\ pc' = "scrape_scroll"
            /\ trace' = trace
    /\ last_ops' = <<>> /\ doc_hidden' = "unread"
    /\ UNCHANGED <<storeVars, storeHist, configVars, lifeVars, stageVars, parseVars, pages_left_to_skip, page, html,
                   attempt, caller, browser, persisted, click_results, click_calls,
                   skip_failed, step_out, pauses, driverVars>>

\* scrape_pages: range(n_pages) is exhausted and the method returns
ScrapePagesDone ==
    /\ pc = "loop"
    /\ ~InBudget(page, n_pages)
    /\ pc' = "done"
    /\ trace' = Append(trace, St("DONE", 0, 0))
    /\ last_ops' = <<>> /\ doc_hidden' = "unread"
    /\ UNCHANGED <<storeVars, storeHist, configVars, lifeVars, stageVars, parseVars, pages_left_to_skip, page, scroll_idx,
                   html, attempt, caller, browser, persisted, click_results, click_calls,
                   skip_failed, step_out, pauses, driverVars>>

\* skip_page, one iteration of its loop: _scroll_container, _wait_for_youtube_iframes
SkipScroll ==
    /\ pc = "skip_scroll"
    /\ SkipMore(scroll_idx, n_scrolls)
    /\ \E found \in BOOLEAN, ready \in BOOLEAN, iframes \in BOOLEAN :
          LET sc == scroll_container(found, driver_alive)
              wt == wait_for_youtube_iframes(iframes, driver_alive)
          IN IF sc.raised \/ wt.raised
             THEN /\ pc' = "aborted"
                  /\ lost_calls' = IF driver_alive THEN lost_calls ELSE lost_calls + sc.calls
                  /\ UNCHANGED <<browser, scroll_idx, step_out>>
             ELSE /\ browser' = ScrollOnce(browser)
                  /\ scroll_idx' = scroll_idx + 1
                  /\ step_out' = [degraded |-> sc.degraded, ready |-> ready,
                                  iframes |-> iframes, scroll_ret |-> sc.scroll_ret,
                                  wait_ret |-> wt.ret]
                  /\ UNCHANGED <<pc, lost_calls>>
    /\ UNCHANGED <<storeVars, storeHist, configVars, lifeVars, stageVars, parseVars, pages_left_to_skip, page, html,
                   attempt, caller, sessionHist, clickEnv, driver_alive>>

\* skip_page after its loop: the final scroll to the bottom (a failure of it is
\* logged and swallowed), then click_next_btn is called
SkipAdvance ==
    /\ pc = "skip_scroll"
    /\ ~SkipMore(scroll_idx, n_scrolls)
    /\ pc' = "click_attempt"
    /\ caller' = "skip"
    /\ attempt' = 0
    /\ click_calls' = click_calls + 1
    /\ step_out' = NoStep
    /\ last_ops' = <<>> /\ pauses' = <<>> /\ doc_hidden' = "unread"
    /\ lost_calls' = IF driver_alive THEN lost_calls ELSE lost_calls + 1
    /\ UNCHANGED <<storeVars, storeHist, configVars, lifeVars, stageVars, parseVars, pages_left_to_skip, page, scroll_idx,
                   html, browser, persisted, trace, click_results, skip_failed,
                   driver_alive>>

\* scrape_page, loop body: self._scroll_container()
ScrapeScroll ==
    /\ pc = "scrape_scroll"
    /\ ScrapeMore(scroll_idx, n_scrolls)
    /\ trace' = Append(trace, St("CAPTURING", page, scroll_idx))
    /\ \E found \in BOOLEAN, ready \in BOOLEAN :
          LET sc == scroll_container(found, driver_alive)
          IN IF sc.raised
             THEN /\ pc' = "aborted"
                  /\ lost_calls' = IF driver_alive THEN lost_calls ELSE lost_calls + sc.calls
                  /\ UNCHANGED <<browser, step_out>>
             ELSE /\ pc' = "scrape_wait"
                  /\ browser' = ScrollOnce(browser)
                  /\ step_out' = [NoStep EXCEPT !.degraded = sc.degraded, !.ready = ready,
                                                !.scroll_ret = sc.scroll_ret]
                  /\ UNCHANGED lost_calls
    /\ UNCHANGED <<storeVars, storeHist, configVars, lifeVars, stageVars, parseVars, pages_left_to_skip, page, scroll_idx,
                   html, attempt, caller, persisted, click_results, click_calls, skip_failed,
                   clickEnv, driver_alive>>

\* scrape_page, loop body: self._wait_for_youtube_iframes(), result ignored
ScrapeWait ==
    /\ pc = "scrape_wait"
    /\ \E iframes \in BOOLEAN :
          LET wt == wait_for_youtube_iframes(iframes, driver_alive)
          IN /\ pc' = IF wt.raised THEN "aborted" ELSE "scrape_read"
             /\ step_out' = [step_out EXCEPT !.iframes = iframes, !.wait_ret = wt.ret]
    /\ lost_calls' = IF driver_alive THEN lost_calls ELSE lost_calls + 1
    /\ UNCHANGED <<storeVars, storeHist, configVars, lifeVars, stageVars, parseVars, pages_left_to_skip, page, scroll_idx,
                   html, attempt, caller, browser, sessionHist, clickEnv, driver_alive>>

\* scrape_page, loop body: html = self.driver.page_source
ScrapeRead ==
    /\ pc = "scrape_read"
    /\ IF driver_alive
       THEN /\ html' = PageSource(browser)
            /\ pc' = "scrape_save"
            /\ UNCHANGED lost_calls
       ELSE /\ pc' = "aborted"
            /\ lost_calls' = lost_calls + 1
            /\ UNCHANGED html
    /\ UNCHANGED <<storeVars, storeHist, configVars, lifeVars, stageVars, parseVars, pages_left_to_skip, page, scroll_idx,
                   attempt, caller, browser, sessionHist, step_out, clickEnv, driver_alive>>

\* scrape_page, loop body: self.db.save_page(url, page_idx, scroll_idx, html);
\* an IntegrityError leaves scrape_page and scrape_pages
ScrapeSave ==
    /\ pc = "scrape_save"
    /\ LET res == save_page(raw_page, SessionUrl, page, scroll_idx,
                            StampOf(db_ts[1], Len(persisted)), html)
       IN /\ raw_page' = res.tbl
          /\ IF res.raised
             THEN /\ pc' = "aborted"
                  /\ UNCHANGED <<scroll_idx, persisted>>
             ELSE /\ pc' = "scrape_scroll"
                  /\ scroll_idx' = scroll_idx + 1
                  /\ persisted' = Append(persisted,
                                         [page_idx |-> page, scroll_idx |-> scroll_idx])
    /\ html' = NoHtml
    /\ UNCHANGED <<db_ts, storeHist, configVars, lifeVars, stageVars, parseVars, pages_left_to_skip, page, attempt, caller,
                   browser, trace, click_results, click_calls, skip_failed, envVars>>

\* scrape_pages after scrape_page returned: click_next_btn is called
ScrapeAdvance ==
    /\ pc = "scrape_scroll"
    /\ ~ScrapeMore(scroll_idx, n_scrolls)
    /\ pc' = "click_attempt"
    /\ caller' = "scrape"
    /\ attempt' = 0
    /\ click_calls' = click_calls + 1
    /\ trace' = Append(trace, St("ADVANCING", page, 0))
    /\ step_out' = NoStep
    /\ last_ops' = <<>> /\ pauses' = <<>> /\ doc_hidden' = "unread"
    /\ UNCHANGED <<storeVars, storeHist, configVars, lifeVars, stageVars, parseVars, pages_left_to_skip, page, scroll_idx,
                   html, browser, persisted, click_results, skip_failed, driverVars>>

\* click_next_btn returns result to its caller:
\*   skip_page: on False it returns without touching the counter, on True it
\*     decrements it; either way scrape_pages goes on with the next page
\*   scrape_pages: on False it breaks out of the loop
Return(result) ==
    /\ click_results' = Append(click_results, [caller |-> caller, result |-> result])
    /\ attempt' = 0
    /\ caller' = "none"
    /\ pauses' = <<>>
    /\ IF caller = "skip"
       THEN /\ pages_left_to_skip' = IF result THEN SkipCounted(pages_left_to_skip)
                                     ELSE pages_left_to_skip
            /\ skip_failed' = (skip_failed \/ ~result)
            /\ page' = page + 1
            /\ pc' = "loop"
            /\ trace' = trace
       ELSE /\ UNCHANGED <<pages_left_to_skip, skip_failed>>
            /\ IF result
               THEN /\ page' = page + 1
                    /\ pc' = "loop"
                    /\ trace' = trace
               ELSE /\ page' = page
                    /\ pc' = "terminated"
                    /\ trace' = Append(trace, St("TERMINATED_NO_MORE_PAGES", 0, 0))

\* click_next_btn, one attempt that finds the control: next_btn.click(), return True
ClickFound ==
    /\ pc = "click_attempt"
    /\ MoreAttempts(attempt)
    /\ driver_alive
    /\ browser' = NextPage(browser)
    /\ last_ops' = AttemptOps(attempt) \o <<"click">>
    /\ Return(TRUE)
    /\ UNCHANGED <<storeVars, storeHist, configVars, lifeVars, stageVars, parseVars, scroll_idx, html, persisted, click_calls,
                   step_out, doc_hidden, driverVars>>

\* click_next_btn, one attempt that raises: the control is not clickable within
\* 5 s, or the click on it is intercepted, or the session is lost and the first
\* driver call of the attempt raises; the except branch logs and pauses
ClickFailed ==
    /\ pc = "click_attempt"
    /\ MoreAttempts(attempt)
    /\ attempt' = attempt + 1
    /\ pauses' = pauses \o BackoffPause(attempt)
    /\ pc' = OnAttemptFailure(pc)
    /\ IF driver_alive
       THEN /\ \E intercepted \in BOOLEAN :
                  last_ops' = AttemptOps(attempt)
                                 \o (IF intercepted THEN <<"click">> ELSE <<>>)
            /\ UNCHANGED lost_calls
       ELSE /\ last_ops' = <<"scroll_bottom">>
            /\ lost_calls' = lost_calls + 1
    /\ UNCHANGED <<storeVars, storeHist, configVars, lifeVars, stageVars, parseVars, pages_left_to_skip, page, scroll_idx,
                   html, caller, browser, sessionHist, step_out, doc_hidden, driver_alive>>

\* click_next_btn: the for loop ends without a click
ClickExhausted ==
    /\ pc = "click_attempt"
    /\ ~MoreAttempts(attempt)
    /\ pc' = "click_exhausted"
    /\ UNCHANGED <<storeVars, storeHist, configVars, lifeVars, stageVars, parseVars, pages_left_to_skip, page, scroll_idx,
                   html, attempt, caller, browser, sessionHist, envVars>>

\* click_next_btn: "if not document.hidden" is taken, the call blocks in input()
AskManual ==
    /\ pc = "click_exhausted"
    /\ driver_alive
    /\ \E hidden \in {"hidden", "visible"} :
          /\ AsksManual(hidden)
          /\ doc_hidden' = hidden
    /\ pc' = "manual_wait"
    /\ UNCHANGED <<storeVars, storeHist, configVars, lifeVars, stageVars, parseVars, pages_left_to_skip, page, scroll_idx,
                   html, attempt, caller, browser, sessionHist, step_out, last_ops, pauses,
                   driverVars>>

\* click_next_btn: document.hidden is true, return False
StopPagination ==
    /\ pc = "click_exhausted"
    /\ driver_alive
    /\ \E hidden \in {"hidden", "visible"} :
          /\ ~AsksManual(hidden)
          /\ doc_hidden' = hidden
    /\ Return(FALSE)
    /\ UNCHANGED <<storeVars, storeHist, configVars, lifeVars, stageVars, parseVars, scroll_idx, html, browser, persisted,
                   click_calls, step_out, last_ops, driverVars>>

\* click_next_btn: the operator presses Enter, having navigated or not; return True
ManualAck ==
    /\ pc = "manual_wait"
    /\ \E navigated \in BOOLEAN :
           browser' = IF navigated THEN NextPage(browser) ELSE browser
    /\ Return(TRUE)
    /\ UNCHANGED <<storeVars, storeHist, configVars, lifeVars, stageVars, parseVars, scroll_idx, html, persisted, click_calls,
                   step_out, last_ops, doc_hidden, driverVars>>

Next ==
    \/ ScrapePagesIter
    \/ ScrapePagesDone
    \/ SkipScroll
    \/ SkipAdvance
    \/ ScrapeScroll
    \/ ScrapeWait
    \/ ScrapeRead
    \/ ScrapeSave
    \/ ScrapeAdvance
    \/ ClickFound
    \/ ClickFailed
    \/ ClickExhausted
    \/ AskManual
    \/ StopPagination
    \/ ManualAck

Spec == Init /\ [][Next]_vars

\* ------------------------------------------------------------- LossSpec
\* the same run, where the browser session may be lost at any moment: from then
\* on every driver call raises
DriverLost ==
    /\ driver_alive
    /\ pc \notin {"done", "terminated", "aborted"}
    /\ driver_alive' = FALSE
    /\ UNCHANGED <<storeVars, storeHist, configVars, lifeVars, stageVars, parseVars, sessionVars, sessionHist, step_out,
                   clickEnv, lost_calls>>

\* click_next_btn after its loop: execute_script("return document.hidden") is
\* outside any try, so with the session lost it raises out of click_next_btn
HiddenCheckRaises ==
    /\ pc = "click_exhausted"
    /\ ~driver_alive
    /\ pc' = "aborted"
    /\ lost_calls' = lost_calls + 1
    /\ UNCHANGED <<storeVars, storeHist, configVars, lifeVars, stageVars, parseVars, pages_left_to_skip, page, scroll_idx,
                   html, attempt, caller, browser, sessionHist, step_out, clickEnv,
                   driver_alive>>

LossNext ==
    \/ Next
    \/ DriverLost
    \/ HiddenCheckRaises

LossSpec == Init /\ [][LossNext]_vars

\* ------------------------------------------------------------- ParseSpec
\* the database file outlierdb.sqlite as the capture core and the parsing
\* stage (parse_outlier.py) share it
Db(raw, parsed) == [raw |-> raw, parsed |-> parsed]

\* extract_data_from_html: one entry per sequence-card block of the markup; the
\* window reached after s scrolls of listing page p shows the cards s and s+1
extract_data_from_html(content) ==
    IF content = NoHtml THEN <<>>
    ELSE <<[youtube_id |-> <<content[1], content[2]>>, caption |-> "c", tags |-> "t"],
           [youtube_id |-> <<content[1], content[2] + 1>>, caption |-> "c", tags |-> "t"]>>

ParsedRow(entry, row) ==
    [youtube_id |-> entry.youtube_id, caption |-> entry.caption, tags |-> entry.tags,
     url |-> row.url, page_idx |-> row.page_idx, scroll_idx |-> row.scroll_idx,
     snapshot_ts |-> row.snapshot_ts]

\* ParsedOutlierDbSqlite.drop_table dropping raw_page
drop_table_raw(db) == Db(EmptyBag, db.parsed)

\* ParsedOutlierDbSqlite.drop_table: DROP TABLE IF EXISTS parsed_page
drop_table(db) == Db(db.raw, NoParsed)

\* ParsedOutlierDbSqlite.create_table: CREATE TABLE IF NOT EXISTS parsed_page,
\* a table with no key
create_table(db) ==
    IF db.parsed.exists THEN db ELSE Db(db.raw, [exists |-> TRUE, rows |-> EmptyBag])

\* save_parsed_page: INSERT OR IGNORE INTO parsed_page; the table has no
\* constraint, so nothing is ever ignored
save_parsed_page(db, prow) ==
    Db(db.raw, [db.parsed EXCEPT !.rows = @ (+) SetToBag({prow})])

\* the rows parse_all inserts for one raw_page row, one per extracted entry
RECURSIVE SaveEntries(_, _, _, _)
SaveEntries(db, row, entries, i) ==
    IF i > Len(entries) THEN db
    ELSE SaveEntries(save_parsed_page(db, ParsedRow(entries[i], row)), row, entries, i + 1)

RECURSIVE SaveCopies(_, _, _)
SaveCopies(db, row, n) ==
    IF n = 0 THEN db
    ELSE SaveCopies(SaveEntries(db, row, extract_data_from_html(row.content), 1), row, n - 1)

RECURSIVE ParseRows(_, _)
ParseRows(db, rows) ==
    IF rows = {} THEN db
    ELSE LET r == CHOOSE x \in rows : TRUE
         IN ParseRows(SaveCopies(db, r, CopiesIn(r, db.raw)), rows \ {r})

\* parse_all(): every row of raw_page (the default min_snapshot_ts lets all
\* rows through) is parsed and its entries saved; with parsed_page dropped
\* the first insert raises and nothing is written
parse_all(db) ==
    IF db.parsed.exists THEN ParseRows(db, BagToSet(db.raw)) ELSE db

ParseInit ==
    /\ raw_page \in {EmptyBag, OldRows}
    /\ db_ts = [h \in Handles |-> 1]
    /\ first_written = {} /\ rewritten = {} /\ last_raised = FALSE /\ n_calls = 0
    /\ SessionIdle
    /\ EnvIdle
    /\ ParseIdle
    /\ LifeIdle
    /\ StageIdle

\* the capture core writes a snapshot of listing page 0
CaptureSave ==
    \E s \in 0..MaxKeyIdx, content \in Htmls : SavePageCall(1, SessionUrl, 0, s, content)

ApplyDb(db) ==
    /\ raw_page' = db.raw
    /\ parsed_page' = db.parsed
    /\ UNCHANGED <<db_ts, storeHist, configVars, lifeVars, stageVars, sessionVars, sessionHist, envVars>>

\* ParsedOutlierDbSqlite.__init__: drop_table(), then create_table()
ParsedNew ==
    /\ ApplyDb(create_table(drop_table(Db(raw_page, parsed_page))))
    /\ UNCHANGED n_parses

\* db.drop_table()
ParsedDropTable ==
    /\ parsed_page.exists
    /\ ApplyDb(drop_table(Db(raw_page, parsed_page)))
    /\ UNCHANGED n_parses

\* db.parse_all()
ParseAll ==
    /\ n_parses < MaxParses
    /\ n_parses' = n_parses + 1
    /\ ApplyDb(parse_all(Db(raw_page, parsed_page)))

ParseNext ==
    \/ CaptureSave
    \/ ParsedNew
    \/ ParsedDropTable
    \/ ParseAll

ParseSpec == ParseInit /\ [][ParseNext]_vars

\* ------------------------------------------------------------- LifeSpec
\* the life of one OutlierDbScraper: __init__, the with-block, close(),
\* _cleanup_profile_dir() and the atexit hook
Life(pd, de, hd, rm, qc, cc) ==
    [profile_dir |-> pd, dir_exists |-> de, has_driver |-> hd,
     rm_attempts |-> rm, quit_calls |-> qc, cleanup_calls |-> cc]

Self == Life(profile_dir, dir_exists, has_driver, rm_attempts, quit_calls, cleanup_calls)

\* _cleanup_profile_dir clearing self.profile_dir only after rmtree has succeeded
cleanup_profile_dir_late(l, rm_raises) ==
    LET l1 == [l EXCEPT !.cleanup_calls = @ + 1]
    IN IF l.profile_dir = "set"
       THEN [l |-> [l1 EXCEPT !.profile_dir = IF rm_raises THEN "set" ELSE "None",
                              !.rm_attempts = @ + 1,
                              !.dir_exists = IF rm_raises THEN @ ELSE FALSE],
             raised |-> FALSE]
       ELSE [l |-> l1, raised |-> FALSE]

\* _cleanup_profile_dir: if self.profile_dir is set, clear it first, then
\* shutil.rmtree the directory inside try/except Exception
cleanup_profile_dir(l, rm_raises) ==
    LET l1 == [l EXCEPT !.cleanup_calls = @ + 1]
    IN IF l.profile_dir = "set"
       THEN [l |-> [l1 EXCEPT !.profile_dir = "None",
                              !.rm_attempts = @ + 1,
                              !.dir_exists = IF rm_raises THEN @ ELSE FALSE],
             raised |-> FALSE]
       ELSE [l |-> l1, raised |-> FALSE]

\* close with driver.quit() outside any try: its exception leaves close
close_unguarded(l, quit_raises, rm_raises) ==
    LET q == IF l.has_driver THEN [l EXCEPT !.quit_calls = @ + 1] ELSE l
    IN IF l.has_driver /\ quit_raises
       THEN [l |-> q, raised |-> TRUE]
       ELSE cleanup_profile_dir(q, rm_raises)

\* close: driver.quit() inside try/except Exception if there is a driver, then
\* _cleanup_profile_dir()
close(l, quit_raises, rm_raises) ==
    LET q == IF l.has_driver THEN [l EXCEPT !.quit_calls = @ + 1] ELSE l
    IN cleanup_profile_dir(q, rm_raises)

\* __exit__: "return False"
exit_returns == FALSE

ApplyLife(l) ==
    /\ profile_dir' = l.profile_dir
    /\ dir_exists' = l.dir_exists
    /\ has_driver' = l.has_driver
    /\ rm_attempts' = l.rm_attempts
    /\ quit_calls' = l.quit_calls
    /\ cleanup_calls' = l.cleanup_calls

OthersIdle ==
    UNCHANGED <<storeVars, storeHist, configVars, sessionVars, sessionHist, envVars, parseVars,
                stageVars>>

LifeInit ==
    /\ raw_page = EmptyBag
    /\ db_ts = [h \in Handles |-> 1]
    /\ first_written = {} /\ rewritten = {} /\ last_raised = FALSE /\ n_calls = 0
    /\ SessionIdle
    /\ EnvIdle
    /\ ParseIdle
    /\ LifeIdle
    /\ StageIdle

\* OutlierDbScraper.__init__: mkdtemp, atexit.register, then webdriver.Chrome;
\* if that raises, _cleanup_profile_dir() and re-raise
ScraperNew ==
    /\ life_pc = "new"
    /\ \E start_ok \in BOOLEAN, rm_raises \in BOOLEAN :
          LET made == [Self EXCEPT !.profile_dir = "set", !.dir_exists = TRUE]
          IN IF start_ok
             THEN /\ ApplyLife([made EXCEPT !.has_driver = TRUE])
                  /\ life_pc' = "open"
             ELSE /\ ApplyLife(cleanup_profile_dir(made, rm_raises).l)
                  /\ life_pc' = "init_failed"
    /\ UNCHANGED <<close_out, exit_out, atexit_ran>>
    /\ OthersIdle

\* "with OutlierDbScraper(...) as scraper": __enter__ returns self
ScraperEnter ==
    /\ life_pc = "open"
    /\ life_pc' = "in_with"
    /\ UNCHANGED <<profile_dir, dir_exists, has_driver, rm_attempts, quit_calls,
                   cleanup_calls, close_out, exit_out, atexit_ran>>
    /\ OthersIdle

\* what one close() call met and did
CloseOut(res, quit_raises, rm_raises) ==
    [n |-> close_out.n + 1, raised |-> res.raised,
     quit_raised |-> has_driver /\ quit_raises,
     rm_raised |-> res.l.rm_attempts > rm_attempts /\ rm_raises,
     cleanup_called |-> res.l.cleanup_calls > cleanup_calls]

\* the with-block is left, normally or by an exception: __exit__ calls
\* close() and returns False, so the exception goes on to the caller
ScraperExit ==
    /\ life_pc = "in_with"
    /\ \E exc \in {"none", "error"}, quit_raises \in BOOLEAN, rm_raises \in BOOLEAN :
          LET res == close(Self, quit_raises, rm_raises)
          IN /\ ApplyLife(res.l)
             /\ close_out' = CloseOut(res, quit_raises, rm_raises)
             /\ exit_out' = [exc |-> exc,
                             propagated |-> IF res.raised THEN "close_error"
                                            ELSE IF exit_returns THEN "none" ELSE exc]
    /\ life_pc' = "left"
    /\ UNCHANGED atexit_ran
    /\ OthersIdle

\* scraper.close() called directly
ScraperClose ==
    /\ life_pc \in {"open", "in_with", "left"}
    /\ close_out.n + cleanup_calls < MaxLifeCalls
    /\ \E quit_raises \in BOOLEAN, rm_raises \in BOOLEAN :
          LET res == close(Self, quit_raises, rm_raises)
          IN /\ ApplyLife(res.l)
             /\ close_out' = CloseOut(res, quit_raises, rm_raises)
    /\ UNCHANGED <<life_pc, exit_out, atexit_ran>>
    /\ OthersIdle

\* scraper._cleanup_profile_dir() called directly
CleanupCall ==
    /\ life_pc \in {"open", "in_with", "left"}
    /\ close_out.n + cleanup_calls < MaxLifeCalls
    /\ \E rm_raises \in BOOLEAN : ApplyLife(cleanup_profile_dir(Self, rm_raises).l)
    /\ UNCHANGED <<life_pc, close_out, exit_out, atexit_ran>>
    /\ OthersIdle

\* the interpreter exits: the hook registered in __init__ calls
\* _cleanup_profile_dir()
AtExit ==
    /\ life_pc \in {"init_failed", "open", "left"}
    /\ \E rm_raises \in BOOLEAN : ApplyLife(cleanup_profile_dir(Self, rm_raises).l)
    /\ atexit_ran' = TRUE
    /\ life_pc' = "exited"
    /\ UNCHANGED <<close_out, exit_out>>
    /\ OthersIdle

LifeNext ==
    \/ ScraperNew
    \/ ScraperEnter
    \/ ScraperExit
    \/ ScraperClose
    \/ CleanupCall
    \/ AtExit

LifeSpec == LifeInit /\ [][LifeNext]_vars

\* ------------------------------------------------------------- BlockSpec
\* parse_outlier.py, _extract_youtube_id_from_block on one sequence-card block.
\* A src attribute is a youtube-nocookie.com/embed/ID address ("embed"), an
\* img.youtube.com/vi/ID/hqdefault.jpg address ("thumb"), or anything else
VideoIds == {"a", "b"}

Srcs == [site : {"embed", "thumb"}, id : VideoIds] \cup {[site |-> "other", id |-> ""]}

SeqsUpTo(S, n) == UNION {[1..k -> S] : k \in 0..n}

\* re.search(r'youtube-nocookie\.com/embed/([a-zA-Z0-9_-]+)', src) on an iframe
IframeMatch(src) == IF src.site = "embed" THEN <<src.id>> ELSE <<>>

\* re.search(r'img\.youtube\.com/vi/([a-zA-Z0-9_-]+)/hqdefault\.jpg', src) on an img
ImgMatch(src) == IF src.site = "thumb" THEN <<src.id>> ELSE <<>>

\* the ids matched in the block, in document order: iframes first, then imgs
RECURSIVE Matches(_, _, _)
Matches(block, i, j) ==
    IF i <= Len(block.iframes)
    THEN IframeMatch(block.iframes[i]) \o Matches(block, i + 1, j)
    ELSE IF j <= Len(block.imgs)
    THEN ImgMatch(block.imgs[j]) \o Matches(block, i, j + 1)
    ELSE <<>>

\* _extract_youtube_id_from_block collecting the ids in a list
extract_youtube_id_from_block_list(block) ==
    LET ms == Matches(block, 1, 1)
    IN IF Len(ms) = 1 THEN [called |-> TRUE, raised |-> FALSE, id |-> ms[1]]
       ELSE IF Len(ms) > 1 THEN [called |-> TRUE, raised |-> TRUE, id |-> ""]
       ELSE [called |-> TRUE, raised |-> FALSE, id |-> ""]

\* _extract_youtube_id_from_block: the ids go into a set; one element: return
\* it; more than one: raise ValueError; none: return ''
extract_youtube_id_from_block(block) ==
    LET ms == Matches(block, 1, 1)
        youtube_ids == {ms[k] : k \in DOMAIN ms}
    IN IF Cardinality(youtube_ids) = 1
       THEN [called |-> TRUE, raised |-> FALSE, id |-> CHOOSE x \in youtube_ids : TRUE]
       ELSE IF Cardinality(youtube_ids) > 1
       THEN [called |-> TRUE, raised |-> TRUE, id |-> ""]
       ELSE [called |-> TRUE, raised |-> FALSE, id |-> ""]

BlockInit ==
    /\ raw_page = EmptyBag
    /\ db_ts = [h \in Handles |-> 1]
    /\ first_written = {} /\ rewritten = {} /\ last_raised = FALSE /\ n_calls = 0
    /\ SessionIdle
    /\ EnvIdle
    /\ ParseIdle
    /\ LifeIdle
    /\ block_in \in [iframes : SeqsUpTo(Srcs, MaxTags), imgs : SeqsUpTo(Srcs, MaxTags)]
    /\ yt_out = NoYt
    /\ clip_in = NoClip /\ clip_out = NoClipOut

\* ParsedOutlierDbSqlite._extract_youtube_id_from_block(block)
ExtractYoutubeId ==
    /\ ~yt_out.called
    /\ yt_out' = extract_youtube_id_from_block(block_in)
    /\ UNCHANGED <<storeVars, storeHist, configVars, sessionVars, sessionHist, envVars,
                   parseVars, lifeVars, block_in, clipVars>>

BlockNext == ExtractYoutubeId

BlockSpec == BlockInit /\ [][BlockNext]_vars

\* ------------------------------------------------------------- ClipSpec
\* video_clip_downloader.py, one download_clip call. The environment: the
\* clips already on disk (existing), the ids yt-dlp can download (ok), the
\* ids ffmpeg can convert to black and white (conv_ok)
ClipPath(vid) == [path |-> vid]

NonePath == [path |-> "None"]

\* pending_video_ids: the requested ids with no clip on disk, in request order
Pending(video_ids, existing) == SelectSeq(video_ids, LAMBDA v : v \notin existing)

\* ydl.download(urls) raises when one of the ids cannot be downloaded
DownloadRaises(pending, ok) == \E i \in DOMAIN pending : pending[i] \notin ok

\* the post-processing loop: the path of a downloaded id, or None when the
\* black-and-white conversion of it fails
PostProcess(vid, bw, conv_ok) ==
    IF bw /\ vid \notin conv_ok THEN NonePath ELSE ClipPath(vid)

\* "ordered_paths = [paths_dict.get(v) for v in video_ids]"
Ordered(video_ids, paths_dict) == [i \in DOMAIN video_ids |-> paths_dict[video_ids[i]]]

Max(a, b) == IF a >= b THEN a ELSE b

\* download_clip: "if _allow_fallback and len(pending_video_ids) > 1"
FallsBack(c, pending) == c.allow_fallback /\ Len(pending) > 1

RECURSIVE download_clip(_, _)
RECURSIVE Fallback(_, _, _, _, _)

\* the fallback loop "for vid in pending_video_ids": one nested
\* download_clip(vid, ..., _allow_fallback=False) each, an exception of it
\* turned into None
Fallback(c, level, pending, i, acc) ==
    IF i > Len(pending) THEN acc
    ELSE LET vid == pending[i]
             r == download_clip([c EXCEPT !.video_ids = <<vid>>, !.is_single = TRUE,
                                          !.allow_fallback = FALSE,
                                          !.existing = acc.existing],
                                level + 1)
             got == IF r.raised THEN NonePath ELSE r.paths[1]
         IN Fallback(c, level, pending, i + 1,
                     [paths_dict |-> [acc.paths_dict EXCEPT ![vid] = got],
                      existing |-> r.existing,
                      depth |-> Max(acc.depth, r.depth),
                      downloads |-> acc.downloads \o r.downloads])

\* download_clip(video_id, start, ..., _allow_fallback) at nesting depth level;
\* a single id is carried as a one-element list and its result as a
\* one-element list, is_single telling that the caller gets the element
download_clip(c, level) ==
    LET pending == Pending(c.video_ids, c.existing)
        ids == {c.video_ids[i] : i \in DOMAIN c.video_ids}
        start == [v \in ids |-> IF v \in c.existing THEN ClipPath(v) ELSE NonePath]
        out(raised, paths, depth, downloads, existing) ==
            [called |-> TRUE, raised |-> raised, paths |-> paths, depth |-> depth,
             downloads |-> downloads, existing |-> existing]
    IN IF pending = <<>>
       THEN out(FALSE, Ordered(c.video_ids, start), level, <<>>, c.existing)
       ELSE IF DownloadRaises(pending, c.ok)
       THEN IF FallsBack(c, pending)
            THEN LET f == Fallback(c, level, pending, 1,
                                   [paths_dict |-> start, existing |-> c.existing,
                                    depth |-> level, downloads |-> <<pending>>])
                 IN out(FALSE, Ordered(c.video_ids, f.paths_dict), f.depth, f.downloads,
                        f.existing)
            ELSE out(TRUE, <<>>, level, <<pending>>, c.existing)
       ELSE LET done == [v \in ids |-> IF v \in c.existing THEN ClipPath(v)
                                       ELSE PostProcess(v, c.bw, c.conv_ok)]
            IN out(FALSE, Ordered(c.video_ids, done), level, <<pending>>,
                   c.existing \cup {v \in ids : done[v] # NonePath})

ClipInit ==
    /\ raw_page = EmptyBag
    /\ db_ts = [h \in Handles |-> 1]
    /\ first_written = {} /\ rewritten = {} /\ last_raised = FALSE /\ n_calls = 0
    /\ SessionIdle
    /\ EnvIdle
    /\ ParseIdle
    /\ LifeIdle
    /\ block_in = NoBlock /\ yt_out = NoYt
    /\ clip_in \in {c \in [video_ids : SeqsUpTo(VideoIds, MaxIds) \ {<<>>},
                             is_single : BOOLEAN,
                             existing : SUBSET VideoIds,
                             ok : SUBSET VideoIds,
                             allow_fallback : BOOLEAN,
                             bw : BOOLEAN,
                             conv_ok : SUBSET VideoIds] :
                        /\ c.is_single => Len(c.video_ids) = 1
                        /\ ~c.bw => c.conv_ok = {}}
    /\ clip_out = NoClipOut

\* download_clip(video_id, start, duration, output_dir, bw, _allow_fallback=...)
DownloadClip ==
    /\ ~clip_out.called
    /\ clip_out' = download_clip(clip_in, 0)
    /\ UNCHANGED <<storeVars, storeHist, configVars, sessionVars, sessionHist, envVars,
                   parseVars, lifeVars, blockVars, clip_in>>

ClipNext == DownloadClip

ClipSpec == ClipInit /\ [][ClipNext]_vars

\* ------------------------------------------------------------- claims

\* C1: for every key (url, page_idx, scroll_idx, snapshot_ts) that save_page was
\* called with twice with different markup, raw_page holds exactly one row for
\* the key and that row carries the first-written markup.
C1_IdempotentPersistence ==
    \A key \in rewritten :
        /\ CountKey(raw_page, key) = 1
        /\ \A r \in RowsWithKey(raw_page, key) :
               [key |-> key, content |-> r.content] \in first_written

C1_Witness ==
    /\ rewritten # {}
    /\ \E key \in rewritten : CountKey(raw_page, key) = 1

\* C2: a save_page call on a key already present in raw_page never raises: it
\* returns normally as a no-op.
C2_DuplicateWriteNeverErrors == last_raised = FALSE

\* C3: for every resume offset k = start_page >= 1, the session persists no
\* snapshot with page_idx in 0..k-2 and the first snapshot it persists has
\* page_idx k-1.
C3_ResumptionSkip ==
    /\ \A i \in DOMAIN persisted : persisted[i].page_idx \notin 0..(start_page - 2)
    /\ persisted # <<>> => persisted[1].page_idx = start_page - 1

Snap(p, s) == [page_idx |-> p, scroll_idx |-> s]

Ended == pc \in {"done", "terminated"}

FirstAdvanceSucceeded == click_results # <<>> /\ click_results[1].result

\* C4 as stated: with n_scrolls = 3, n_pages = 1, start_page = 2 and a first
\* pagination advance that succeeds, the finished session has persisted exactly
\* the three snapshots (1,0), (1,1), (1,2).
C4_SkipScenario_Original ==
    (n_scrolls = 3 /\ n_pages = 1 /\ start_page = 2 /\ Ended /\ FirstAdvanceSucceeded)
        => persisted = <<Snap(1, 0), Snap(1, 1), Snap(1, 2)>>

\* C4 amended: with n_scrolls = 3, start_page = 2 and a first pagination advance
\* that succeeds, the finished session has persisted nothing for page 0; with
\* n_pages = 1 it has persisted nothing at all (the skipped page uses up the
\* budget), with n_pages = 2 exactly the three snapshots (1,0), (1,1), (1,2).
C4_SkipScenario ==
    (n_scrolls = 3 /\ start_page = 2 /\ Ended /\ FirstAdvanceSucceeded)
        => /\ \A i \in DOMAIN persisted : persisted[i].page_idx # 0
           /\ n_pages = 1 => persisted = <<>>
           /\ n_pages = 2 => persisted = <<Snap(1, 0), Snap(1, 1), Snap(1, 2)>>

C4_Witness ==
    /\ n_scrolls = 3 /\ n_pages = 2 /\ start_page = 2 /\ pc = "done"
    /\ FirstAdvanceSucceeded
    /\ persisted = <<Snap(1, 0), Snap(1, 1), Snap(1, 2)>>

\* C5: one click_next_btn call whose attempts all fail makes exactly
\* max_attempts attempts: the attempt count never exceeds max_attempts, the
\* retry loop is left only by a click or after max_attempts failures, and the
\* call escalates to the manual wait or returns False only after max_attempts
\* failed attempts.
C5_BoundedRetry ==
    /\ [](attempt \in 0..max_attempts)
    /\ [](pc \in {"click_exhausted", "manual_wait"} => attempt = max_attempts)
    /\ [][(pc = "click_attempt" /\ pc' # "click_attempt")
            => \/ attempt = max_attempts /\ pc' = "click_exhausted"
               \/ /\ attempt < max_attempts
                  /\ click_results' = Append(click_results,
                                             [caller |-> caller, result |-> TRUE])]_vars
    /\ [][(Len(click_results') > Len(click_results)
             /\ ~click_results'[Len(click_results')].result)
            => pc = "click_exhausted" /\ attempt = max_attempts]_vars

C5_Witness == pc = "click_exhausted" /\ attempt = max_attempts

\* C6: in a run with headless = true the blocking manual-intervention wait
\* (input()) is never reached.
C6_HeadlessNeverBlocks == headless => pc # "manual_wait"

AllAdvancesSucceeded == \A i \in DOMAIN click_results : click_results[i].result

\* the session states of the spec's sequence: CAPTURING(p, 0..S-1) for
\* p = 0..N-1 with ADVANCING between two pages, then DONE
TraceNoLastAdvance(N, S) ==
    [i \in 1..(N * (S + 1)) |->
        LET q == (i - 1) \div (S + 1)
            r == (i - 1) % (S + 1)
        IN IF i = N * (S + 1) THEN St("DONE", 0, 0)
           ELSE IF r < S THEN St("CAPTURING", q, r)
           ELSE St("ADVANCING", q, 0)]

\* the same with ADVANCING after every page, the last one included
TraceAdvanceEachPage(N, S) ==
    [i \in 1..(N * (S + 1) + 1) |->
        LET q == (i - 1) \div (S + 1)
            r == (i - 1) % (S + 1)
        IN IF i = N * (S + 1) + 1 THEN St("DONE", 0, 0)
           ELSE IF r < S THEN St("CAPTURING", q, r)
           ELSE St("ADVANCING", q, 0)]

IsPrefix(a, b) == Len(a) <= Len(b) /\ \A i \in DOMAIN a : a[i] = b[i]

\* C7 as stated: with no resume offset and every pagination advance succeeding,
\* a session that is done has visited CAPTURING(0,0..S-1), ADVANCING, ...,
\* CAPTURING(N-1,0..S-1), DONE and has called click_next_btn N-1 times.
C7_TerminalDeterminism_Original ==
    (start_page = 1 /\ AllAdvancesSucceeded /\ pc = "done")
        => /\ trace = TraceNoLastAdvance(n_pages, n_scrolls)
           /\ click_calls = n_pages - 1

\* C7 amended: with no resume offset and every pagination advance succeeding,
\* the session visits CAPTURING(0,0..S-1), ADVANCING, CAPTURING(1,0..S-1),
\* ADVANCING, ..., CAPTURING(N-1,0..S-1), ADVANCING, DONE in exactly that
\* order: click_next_btn is called N times, once after every page, the last
\* budgeted page included.
C7_TerminalDeterminism ==
    (start_page = 1 /\ AllAdvancesSucceeded)
        => /\ IsPrefix(trace, TraceAdvanceEachPage(n_pages, n_scrolls))
           /\ pc = "done" => /\ trace = TraceAdvanceEachPage(n_pages, n_scrolls)
                             /\ click_calls = n_pages

C7_Witness ==
    /\ start_page = 1 /\ AllAdvancesSucceeded /\ pc = "done"
    /\ n_pages = 3 /\ n_scrolls = 2
    /\ click_calls = 3

SessionRows == {r \in BagToSet(raw_page) : r.snapshot_ts = db_ts[1]}

ThreeSnapshotsOfPage0 ==
    /\ persisted = <<Snap(0, 0), Snap(0, 1), Snap(0, 2)>>
    /\ {<<r.page_idx, r.scroll_idx>> : r \in SessionRows} = {<<0, 0>>, <<0, 1>>, <<0, 2>>}
    /\ \A r \in SessionRows : CopiesIn(r, raw_page) = 1 /\ r.url = SessionUrl
    /\ Cardinality(SessionRows) = 3

\* C8 as stated: with n_scrolls = 3, n_pages = 1, start_page = 1 the session
\* never ends in TERMINATED_NO_MORE_PAGES and never blocks, and when done it has
\* persisted exactly the snapshots (0,0), (0,1), (0,2) under one timestamp.
C8_Scenario_Original ==
    (n_scrolls = 3 /\ n_pages = 1 /\ start_page = 1)
        => /\ pc \notin {"terminated", "manual_wait"}
           /\ pc = "done" => ThreeSnapshotsOfPage0

PageCaptured ==
    pc \in {"click_attempt", "click_exhausted", "manual_wait", "done", "terminated"}
        \/ (pc = "loop" /\ page > 0)

\* C8 amended: with n_scrolls = 3, n_pages = 1, start_page = 1 the session
\* persists exactly the snapshots (0,0), (0,1), (0,2), all under the session's
\* one timestamp; it then calls click_next_btn once and ends in DONE if that
\* call returns True and in TERMINATED_NO_MORE_PAGES if it returns False.
C8_Scenario ==
    (n_scrolls = 3 /\ n_pages = 1 /\ start_page = 1)
        => /\ IsPrefix(persisted, <<Snap(0, 0), Snap(0, 1), Snap(0, 2)>>)
           /\ PageCaptured => ThreeSnapshotsOfPage0
           /\ pc = "done" => click_results = <<[caller |-> "scrape", result |-> TRUE]>>
           /\ pc = "terminated"
                => click_results = <<[caller |-> "scrape", result |-> FALSE]>>

C8_Witness ==
    /\ n_scrolls = 3 /\ n_pages = 1 /\ start_page = 1
    /\ pc = "terminated"
    /\ ThreeSnapshotsOfPage0

InSkipPage == pc = "skip_scroll" \/ caller = "skip"

\* C9: _pages_left_to_skip is never negative; it changes only by going down by
\* one, at the end of a skip_page call; once it is zero it stays zero and the
\* session never runs skip_page again.
C9_SkipCounter ==
    /\ [](pages_left_to_skip \in Nat)
    /\ [][pages_left_to_skip' # pages_left_to_skip
            => /\ pages_left_to_skip' = pages_left_to_skip - 1
               /\ caller = "skip" /\ pc' = "loop" /\ page' = page + 1]_vars
    /\ [][pages_left_to_skip = 0
            => pages_left_to_skip' = 0 /\ ~InSkipPage']_vars

C9_Witness ==
    /\ start_page = 3 /\ pages_left_to_skip = 0
    /\ pc = "scrape_save" /\ page = 2

\* C10: once a skip_page call has seen click_next_btn return False the session
\* has stopped: it is not scrolling, skipping, capturing, saving or advancing.
C10_SkipFailureTerminates ==
    skip_failed => pc \in {"loop", "done", "terminated"}

NewRows == BagToSet(raw_page) \ BagToSet(OldRows)

\* C11: snapshot_ts is set at construction and never reassigned, and every
\* snapshot the session writes carries that one value: the rows the session
\* added are exactly those under its timestamp, one per persisted (page, scroll).
C11_SessionTimestamp ==
    /\ [][db_ts' = db_ts]_vars
    /\ [](\A r \in NewRows : r.snapshot_ts = db_ts[1] /\ CopiesIn(r, raw_page) = 1)
    /\ [](Cardinality(NewRows) = Len(persisted))
    /\ [](\A r1, r2 \in NewRows :
              KeyOf(r1) = KeyOf(r2)
                  <=> <<r1.url, r1.page_idx, r1.scroll_idx>>
                          = <<r2.url, r2.page_idx, r2.scroll_idx>>)

C11_Witness ==
    /\ Len(persisted) >= 2
    /\ \E r1, r2 \in NewRows : r1 # r2 /\ r1.snapshot_ts = r2.snapshot_ts

LastOf(seq) == seq[Len(seq)]

\* the scroll step described by step_out has been captured and persisted
StepPersisted ==
    /\ pc = "scrape_scroll" /\ scroll_idx > 0
    /\ persisted # <<>>
    /\ LastOf(persisted) = Snap(page, scroll_idx - 1)

\* C12 as stated: when the inner container is not found, _scroll_container
\* returns an outcome flagged as degraded.
C12_DegradedScroll_Original ==
    step_out.degraded => step_out.scroll_ret = "degraded"

\* C12 amended: when the inner container is not found, _scroll_container
\* scrolls the window instead and returns normally, with None as its value (no
\* degraded flag reaches the caller); the session does not abort and goes on
\* to persist the snapshot of that scroll step.
C12_DegradedScroll ==
    /\ [](pc # "aborted")
    /\ [][(pc = "scrape_scroll" /\ ScrapeMore(scroll_idx, n_scrolls))
            => /\ pc' = "scrape_wait"
               /\ browser' = ScrollOnce(browser)
               /\ step_out'.scroll_ret = "None"]_vars
    /\ []((step_out.degraded /\ pc = "scrape_scroll" /\ scroll_idx > 0) => StepPersisted)

C12_Witness == step_out.degraded /\ StepPersisted

C14_LossIsFatal ==
    ~driver_alive => /\ lost_calls <= 1
                     /\ lost_calls = 1 => pc = "aborted"

PagesProcessed ==
    Cardinality({i \in DOMAIN trace : trace[i].st = "SKIPPING"})
        + Cardinality({trace[i].page : i \in {j \in DOMAIN trace : trace[j].st = "CAPTURING"}})

\* C16: a session processes (skips or captures) at most n_pages pages and
\* persists at most n_pages * n_scrolls snapshots, each with page_idx in
\* 0..n_pages-1 and scroll_idx in 0..n_scrolls-1.
C16_PageBudget ==
    /\ PagesProcessed <= n_pages
    /\ page <= n_pages
    /\ Len(persisted) <= n_pages * n_scrolls
    /\ Cardinality(NewRows) <= n_pages * n_scrolls
    /\ \A i \in DOMAIN persisted :
          /\ persisted[i].page_idx \in 0..(n_pages - 1)
          /\ persisted[i].scroll_idx \in 0..(n_scrolls - 1)
    /\ \A r \in NewRows :
          r.page_idx \in 0..(n_pages - 1) /\ r.scroll_idx \in 0..(n_scrolls - 1)

C16_Witness ==
    /\ pc = "done" /\ n_pages = 2 /\ n_scrolls = 2
    /\ PagesProcessed = 2
    /\ Len(persisted) = 4

InClickCall == pc \in {"click_attempt", "click_exhausted", "manual_wait"}

ClickReturns == Len(click_results') = Len(click_results) + 1

AfterCaptureAdvance(result) ==
    /\ pc = "loop" \/ pc = "terminated"
    /\ click_results # <<>>
    /\ LastOf(click_results) = [caller |-> "scrape", result |-> result]

\* what scrape_pages does once click_next_btn has returned False to it: nothing
SessionOver ==
    pc = "terminated"
        => UNCHANGED <<raw_page, persisted, browser, click_calls, last_ops, step_out>>

\* C17 as stated: a capture-mode advance that returns True is followed by the
\* capture of the next page from scroll 0, the page index one higher; one that
\* returns False ends the session.
C17_CaptureAdvance_Original ==
    /\ [][(caller = "scrape" /\ ClickReturns)
            => IF LastOf(click_results').result
               THEN pc' = "loop" /\ page' = page + 1
               ELSE pc' = "terminated"]_vars
    /\ [][(pc = "loop" /\ AfterCaptureAdvance(TRUE))
            => pc' = "scrape_scroll" /\ scroll_idx' = 0 /\ page' = page]_vars
    /\ [][SessionOver]_vars

\* C17 amended: a capture-mode advance that returns True is followed by the
\* capture of the next page from scroll 0, the page index one higher, if that
\* page is within the budget, and by the end of the session (DONE) if the page
\* just captured was the last budgeted one; one that returns False ends the
\* session, with no snapshot and no browser interaction afterwards.
C17_CaptureAdvance ==
    /\ [][(caller = "scrape" /\ ClickReturns)
            => IF LastOf(click_results').result
               THEN pc' = "loop" /\ page' = page + 1
               ELSE pc' = "terminated"]_vars
    /\ [][(pc = "loop" /\ AfterCaptureAdvance(TRUE))
            => \/ page < n_pages /\ pc' = "scrape_scroll" /\ scroll_idx' = 0 /\ page' = page
               \/ page = n_pages /\ pc' = "done"]_vars
    /\ [][SessionOver]_vars
    /\ [](pc = "terminated" => AfterCaptureAdvance(FALSE))

C17_Witness ==
    /\ pc = "scrape_scroll" /\ scroll_idx = 0 /\ page = 1 /\ start_page = 1
    /\ LastOf(click_results) = [caller |-> "scrape", result |-> TRUE]

HasJitter(ops) ==
    Len(ops) >= 3 /\ ops[2] = "scroll_up" /\ ops[3] = "scroll_bottom"

\* C18: in a click_next_btn call every attempt starts with the scroll to the
\* bottom; the jitter (scroll up, back to the bottom) is issued on every attempt
\* but the first; the attempt that clicks the control ends the call with True:
\* no further attempt and no manual-intervention branch.
C18_AttemptShape ==
    /\ [](last_ops # <<>> => last_ops[1] = "scroll_bottom")
    /\ []((InClickCall /\ attempt >= 1) => (HasJitter(last_ops) <=> attempt > 1))
    /\ []((InClickCall /\ attempt = 0) => last_ops = <<>>)
    /\ [][(pc = "click_attempt" /\ ClickReturns)
            => /\ LastOf(last_ops') = "click"
               /\ HasJitter(last_ops') <=> attempt > 0
               /\ LastOf(click_results').result
               /\ ~InClickCall' /\ attempt' = 0]_vars

C18_Witness ==
    /\ pc = "click_attempt" /\ attempt = 2
    /\ last_ops = <<"scroll_bottom", "scroll_up", "scroll_bottom", "wait_clickable">>

\* C19 as stated: in a click_next_btn call the pause after a failed attempt is
\* strictly longer than the pause after the failed attempt before it.
C19_Backoff_Original ==
    \A i \in 1..(Len(pauses) - 1) : pauses[i + 1] > pauses[i]

\* C19 amended: in a click_next_btn call the pause after every failed attempt
\* that is followed by a retry is the same 2 * pause_ms: the pause after a
\* failed attempt equals the pause after the one before it.
C19_Backoff ==
    /\ \A i \in DOMAIN pauses : pauses[i] = 2 * pause_ms
    /\ InClickCall
          => Len(pauses) = IF attempt < max_attempts THEN attempt ELSE max_attempts - 1
    /\ ~InClickCall => pauses = <<>>

C19_Witness ==
    /\ pc = "click_attempt"
    /\ Len(pauses) >= 2
    /\ pauses[2] = pauses[1]

\* C20: after max_attempts failed attempts click_next_btn blocks on input() and
\* then returns True if and only if document.hidden was read as false; if it
\* was read as true it returns False at once. The manual wait is reached only
\* after max_attempts failures and only with a visible page.
C20_Escalation ==
    /\ [](pc = "manual_wait" => attempt = max_attempts /\ doc_hidden = "visible")
    /\ [][pc = "click_exhausted"
            => (pc' = "manual_wait" <=> doc_hidden' = "visible")]_vars
    /\ [][(pc = "click_exhausted" /\ ClickReturns)
            => doc_hidden' = "hidden" /\ ~LastOf(click_results').result]_vars
    /\ [][(pc = "manual_wait" /\ pc' # "manual_wait")
            => ClickReturns /\ LastOf(click_results').result]_vars
    /\ [][pc' = "manual_wait" => pc \in {"click_exhausted", "manual_wait"}]_vars

C20_Witness ==
    /\ pc = "manual_wait" /\ attempt = max_attempts /\ doc_hidden = "visible"

\* C15: a row written to raw_page is never changed and never deleted, by the
\* capture core's save_page or by the parsing stage (its constructor,
\* drop_table, parse_all): every row keeps its copies, the table only grows.
C15_AppendOnly ==
    [][\A r \in BagToSet(raw_page) :
           /\ r \in BagToSet(raw_page')
           /\ CopiesIn(r, raw_page') >= CopiesIn(r, raw_page)]_vars

C15_Witness ==
    /\ BagCardinality(raw_page) >= 2
    /\ n_parses >= 1
    /\ ~parsed_page.exists
    /\ last_raised

\* C21: a transient interaction failure (control not found, click intercepted,
\* readiness timeout) never leaves click_next_btn, the readiness wait of
\* _scroll_container or _wait_for_youtube_iframes as an exception: the session
\* never aborts, a failed attempt stays inside the click_next_btn call, a
\* timed-out wait is followed by the next step, and click_next_btn is left
\* only by returning True or False.
C21_TransientNeverPropagates ==
    /\ [](pc # "aborted")
    /\ [](\A i \in DOMAIN click_results : click_results[i].result \in BOOLEAN)
    /\ [](step_out.wait_ret \in BOOLEAN)
    /\ [][(pc = "click_attempt" /\ attempt' = attempt + 1) => pc' = "click_attempt"]_vars
    /\ [][(InClickCall /\ ~InClickCall')
            => ClickReturns /\ LastOf(click_results').result \in BOOLEAN]_vars
    /\ [][(pc = "scrape_wait" /\ ~step_out'.wait_ret) => pc' = "scrape_read"]_vars
    /\ [][(pc = "skip_scroll" /\ SkipMore(scroll_idx, n_scrolls))
            => pc' = "skip_scroll" /\ scroll_idx' = scroll_idx + 1]_vars

C21_Witness ==
    /\ pc = "terminated"
    /\ click_results # <<>> /\ ~LastOf(click_results).result
    /\ last_ops # <<>> /\ LastOf(last_ops) = "click"

\* the row save_page adds for the scroll step in hand, carrying the markup the
\* browser shows
StepRow == Row(SessionUrl, page, scroll_idx, db_ts[1], <<browser.page, browser.scrolls>>)

\* C22: every captured scroll step is scroll, then the readiness waits, then
\* the markup read, then save_page, in that order and with nothing in between;
\* within a page the snapshots are persisted for scroll_idx 0, 1, ..., S-1 in
\* increasing order; the markup persisted at (page, scroll) is the one read
\* after that step's scroll.
C22_StepOrdering ==
    /\ [][(pc = "scrape_scroll" /\ ScrapeMore(scroll_idx, n_scrolls))
            => /\ pc' = "scrape_wait"
               /\ browser' = [browser EXCEPT !.scrolls = @ + 1]
               /\ UNCHANGED <<html, raw_page, persisted, scroll_idx, page>>]_vars
    /\ [][pc = "scrape_wait"
            => /\ pc' = "scrape_read"
               /\ UNCHANGED <<browser, html, raw_page, persisted, scroll_idx, page>>]_vars
    /\ [][pc = "scrape_read"
            => /\ pc' = "scrape_save"
               /\ html' = <<browser.page, browser.scrolls>>
               /\ UNCHANGED <<browser, raw_page, persisted, scroll_idx, page>>]_vars
    /\ [][pc = "scrape_save"
            => /\ pc' = "scrape_scroll"
               /\ StepRow \notin BagToSet(raw_page)
               /\ raw_page' = raw_page (+) SetToBag({StepRow})
               /\ persisted' = Append(persisted, Snap(page, scroll_idx))
               /\ scroll_idx' = scroll_idx + 1
               /\ UNCHANGED <<browser, page>>]_vars
    /\ [][raw_page' # raw_page => pc = "scrape_save"]_vars
    /\ [](persisted # <<>> => persisted[1].scroll_idx = 0)
    /\ [](\A i \in 1..(Len(persisted) - 1) :
              \/ /\ persisted[i + 1].page_idx = persisted[i].page_idx
                 /\ persisted[i + 1].scroll_idx = persisted[i].scroll_idx + 1
              \/ /\ persisted[i + 1].page_idx > persisted[i].page_idx
                 /\ persisted[i].scroll_idx = n_scrolls - 1
                 /\ persisted[i + 1].scroll_idx = 0)
    /\ [](\A r \in NewRows : r.content[2] >= r.scroll_idx + 1)

C22_Witness ==
    /\ pc = "scrape_scroll" /\ scroll_idx = 2
    /\ Len(persisted) >= 2
    /\ LastOf(persisted) = Snap(page, 1)
    /\ \E r \in NewRows : r.page_idx = page /\ r.scroll_idx = 1 /\ r.content[2] = 2

\* C23: close() returns normally even if driver.quit() raises and even if
\* removing the profile directory raises, and in both cases it still calls
\* _cleanup_profile_dir, so that the removal has been attempted once close()
\* is over; leaving the with-block always calls close() and the exception that
\* caused the exit goes on to the caller.
C23_CleanupNeverEscalates ==
    /\ [](~close_out.raised)
    /\ [](close_out.n > 0
            => close_out.cleanup_called /\ profile_dir = "None" /\ rm_attempts = 1)
    /\ [][close_out'.n > close_out.n
            => /\ cleanup_calls' = cleanup_calls + 1
               /\ has_driver => quit_calls' = quit_calls + 1]_vars
    /\ [][(life_pc = "in_with" /\ life_pc' = "left")
            => /\ close_out'.n = close_out.n + 1
               /\ exit_out'.propagated = exit_out'.exc]_vars
    /\ [](life_pc \in {"in_with", "left"} => exit_out.propagated = exit_out.exc)

C23_Witness ==
    /\ life_pc = "left"
    /\ close_out.quit_raised /\ close_out.rm_raised /\ close_out.cleanup_called
    /\ dir_exists
    /\ exit_out.exc = "error" /\ exit_out.propagated = "error"

\* C24: over any sequence of _cleanup_profile_dir calls (from a failed driver
\* start, from close(), from the atexit hook, or direct) the removal of the
\* profile directory is attempted at most once per scraper, also when the
\* first attempt fails: an attempt is made only while profile_dir has not
\* been cleared, and it clears profile_dir whether or not it succeeds.
C24_CleanupIdempotent ==
    /\ [](rm_attempts <= 1)
    /\ [](rm_attempts = 1 <=> profile_dir = "None")
    /\ [][rm_attempts' # rm_attempts
            => profile_dir # "None" /\ profile_dir' = "None"
                 /\ rm_attempts' = rm_attempts + 1]_vars
    /\ [][(cleanup_calls' > cleanup_calls /\ profile_dir = "None")
            => UNCHANGED <<rm_attempts, dir_exists, profile_dir>>]_vars

C24_Witness ==
    /\ atexit_ran
    /\ cleanup_calls >= 3 /\ close_out.n >= 1
    /\ rm_attempts = 1 /\ dir_exists

\* the distinct video ids the iframe and thumbnail sources of the block yield
IdsOfBlock ==
    {block_in.iframes[i].id : i \in {k \in DOMAIN block_in.iframes :
                                          block_in.iframes[k].site = "embed"}}
        \cup {block_in.imgs[i].id : i \in {k \in DOMAIN block_in.imgs :
                                              block_in.imgs[k].site = "thumb"}}

\* C25: _extract_youtube_id_from_block raises when the iframe and thumbnail
\* sources of the block yield two or more distinct video ids, returns the id
\* when they yield exactly one distinct id, however often it occurs, and
\* returns the empty string when they yield none.
C25_YoutubeIdPerBlock ==
    yt_out.called
        => /\ Cardinality(IdsOfBlock) >= 2 => yt_out.raised
           /\ Cardinality(IdsOfBlock) = 1 => ~yt_out.raised /\ IdsOfBlock = {yt_out.id}
           /\ Cardinality(IdsOfBlock) = 0 => ~yt_out.raised /\ yt_out.id = ""

C25_Witness ==
    /\ yt_out.called /\ ~yt_out.raised /\ yt_out.id = "a"
    /\ block_in.iframes = <<[site |-> "embed", id |-> "a"]>>
    /\ block_in.imgs = <<[site |-> "thumb", id |-> "a"], [site |-> "other", id |-> ""]>>

\* pagination advances of this session that have returned True so far
TrueAdvances == Cardinality({i \in DOMAIN click_results : click_results[i].result})

\* C26: every snapshot the session persists carries as page_idx the number of
\* pagination advances (skip-mode and capture-mode together) that returned
\* True earlier in the session, also after a skip whose advance failed.
C26_PageIndexFidelity ==
    pc = "scrape_save" => page = TrueAdvances

\* the i-th pair of (k-1,0), (k-1,1), ..., (k-1,S-1), (k,0), ... for resume offset k
NthSnap(i) == Snap((start_page - 1) + ((i - 1) \div n_scrolls), (i - 1) % n_scrolls)

\* C27: at every point of a session the (page_idx, scroll_idx) pairs it has
\* persisted, counting a snapshot once save_page has returned, are a
\* contiguous prefix of (k-1,0), (k-1,1), ..., (k-1,S-1), (k,0), ... where k
\* is the resume offset, and they are the pairs of the rows it added to
\* raw_page.
C27_NoGaps ==
    /\ \A i \in DOMAIN persisted : persisted[i] = NthSnap(i)
    /\ {Snap(r.page_idx, r.scroll_idx) : r \in NewRows}
          = {persisted[i] : i \in DOMAIN persisted}

\* the download of some pending id of the call fails
SomeDownloadFails ==
    DownloadRaises(Pending(clip_in.video_ids, clip_in.existing), clip_in.ok)

\* the id has its clip once the call is over: it was there before, or it was
\* downloaded (and converted, if asked for)
ClipSucceeds(vid) ==
    \/ vid \in clip_in.existing
    \/ vid \in clip_in.ok /\ (clip_in.bw => vid \in clip_in.conv_ok)

\* C28: a download_clip call never nests deeper than one level and every
\* download made by a nested call is of one id; for a list input the result
\* has the length and order of the input, with the path of each id that
\* succeeded or existed and None for each id that failed; a failing download
\* is raised to the caller exactly when the input is a single id or fallback
\* is disabled.
C28_BoundedFallback ==
    clip_out.called
        => /\ clip_out.depth <= 1
           /\ \A i \in 2..Len(clip_out.downloads) : Len(clip_out.downloads[i]) = 1
           /\ clip_out.raised
                 <=> (SomeDownloadFails /\ (clip_in.is_single \/ ~clip_in.allow_fallback))
           /\ (~clip_in.is_single /\ ~clip_out.raised)
                 => /\ Len(clip_out.paths) = Len(clip_in.video_ids)
                    /\ \A i \in DOMAIN clip_in.video_ids :
                          clip_out.paths[i] = IF ClipSucceeds(clip_in.video_ids[i])
                                              THEN ClipPath(clip_in.video_ids[i])
                                              ELSE NonePath

\* parsed_page as one parse_all run on a fresh ParsedOutlierDbSqlite leaves it
OnceParsed(raw) ==
    parse_all(create_table(drop_table(Db(raw, NoParsed)))).parsed

\* C29: on one ParsedOutlierDbSqlite instance and an unchanged raw_page, a
\* second parse_all leaves parsed_page with the rows the first one left: when
\* parsed_page holds the outcome of one parse_all of the present raw_page,
\* another parse_all changes nothing.
C29_ReparseIdempotent ==
    [][(n_parses' = n_parses + 1 /\ parsed_page = OnceParsed(raw_page))
         => parsed_page' = parsed_page]_vars

====
